---- MODULE Spec2Model ----
(***************************************************************************)
(* A model of src/main.py: the credential store (table users), the         *)
(* watchlist store (table watchlist), the enrichment pipeline              *)
(* (get_movie_info and the ask_claude helpers) and the Streamlit session   *)
(* state, driven by the button handlers of the script.                     *)
(*                                                                         *)
(* Python values are kept apart from TLA+ values: None, True and False are *)
(* PyNone, PyTrue and PyFalse; a key of st.session_state is a sequence of  *)
(* length 0 (the key is not in the session) or 1 (the key is present, with *)
(* that value); text is a sequence of one-character-like tokens, so that   *)
(* split(','), strip() and ", ".join() are computed and not assumed.       *)
(* The column added_on (a timestamp the store assigns) is not modelled.    *)
(***************************************************************************)
EXTENDS Integers, Sequences, FiniteSets, Bags, TLC

VARIABLES
    users,          \* table users: a set of rows [username, password_hash]
    watchlist,      \* table watchlist: a bag of rows (a table is a multiset)
    authenticated,  \* st.session_state.authenticated, per session
    current_user,   \* st.session_state.current_user, per session
    movie_info,     \* st.session_state["movie_info"], per session
    claude_recs,    \* st.session_state["claude_recs"], per session
    personal_recs,  \* st.session_state["personal_recs"], per session
    pc,             \* where the session's script run is: idle, add, remove
    rm_title,       \* the title of the Remove button the run is handling
    msg,            \* the last message the session's run showed
    last            \* the last handler run: session, op, return value, calls

vars == <<users, watchlist, authenticated, current_user, movie_info,
          claude_recs, personal_recs, pc, rm_title, msg, last>>

store_vars == <<users, watchlist>>
view_vars == <<movie_info, claude_recs, personal_recs>>
session_vars == <<authenticated, current_user, movie_info, claude_recs,
                  personal_recs>>

(***************************************************************************)
(* Bounds and input sets.                                                  *)
(***************************************************************************)
NumPasswords == 2
NumSimilar == 6
MaxSimilar == 5

Sessions == {1, 2}
Usernames == {"alice", "bob"}
Passwords == 1..NumPasswords
Titles == {"Dune", "Heat"}

PyNone == [py |-> "None"]
PyTrue == [py |-> "bool", v |-> TRUE]
PyFalse == [py |-> "bool", v |-> FALSE]
PyBool(b) == IF b THEN PyTrue ELSE PyFalse
Truthy(x) == x # PyNone /\ x # PyFalse

(***************************************************************************)
(* Text helpers: str.split(','), str.strip(), sep.join(list).              *)
(***************************************************************************)
RECURSIVE Split(_)
Split(text) ==
    IF \A i \in 1..Len(text) : text[i] # ","
    THEN <<text>>
    ELSE LET k == CHOOSE i \in 1..Len(text) :
                      text[i] = "," /\ \A j \in 1..(i - 1) : text[j] # ","
         IN <<SubSeq(text, 1, k - 1)>> \o Split(SubSeq(text, k + 1, Len(text)))

RECURSIVE Strip(_)
Strip(text) ==
    IF text = <<>> THEN text
    ELSE IF Head(text) = " " THEN Strip(Tail(text))
    ELSE IF text[Len(text)] = " " THEN Strip(SubSeq(text, 1, Len(text) - 1))
    ELSE text

SplitStrip(text) == [i \in 1..Len(Split(text)) |-> Strip(Split(text)[i])]

RECURSIVE Join(_, _)
Join(sep, list) ==
    IF list = <<>> THEN <<>>
    ELSE IF Len(list) = 1 THEN list[1]
    ELSE list[1] \o sep \o Join(sep, Tail(list))

Take(seq, n) == SubSeq(seq, 1, IF Len(seq) < n THEN Len(seq) ELSE n)

(* dict.get(key, default) and str(value).                                  *)
Get(dict, key, default) == IF key \in DOMAIN dict THEN dict[key] ELSE default

PyStr(value) ==
    IF "num" \in DOMAIN value THEN <<ToString(value.num)>> ELSE value.str

(***************************************************************************)
(* What the external services may answer.                                  *)
(***************************************************************************)
(* A details document of TMDB is a dict; none of the keys the code reads   *)
(* with details.get is sure to be there.  A number is [num |-> n].         *)
FullDoc(title) ==
    [title |-> title, overview |-> <<"o", "v">>, vote_average |-> [num |-> 7],
     poster_path |-> <<"/", "p">>, genres |-> <<[name |-> <<"g">>]>>]
BareDoc == [id |-> 1]
DetailsDocs == {FullDoc(t) : t \in Titles} \cup {BareDoc}
StreamingReplies ==
    { <<"N", "e", "t">>, <<" ", "N", "e", "t", ",", " ", "H", "u", "l", " ">> }
RecReplies == { <<"A", ",", " ", "B">> }
SimilarResults == [i \in 1..NumSimilar |-> <<"m", i>>]

ApiSearch == "tmdb.Search.movie"
ApiInfo == "tmdb.Movies.info"
ApiSimilar == "tmdb.Movies.similar_movies"
ApiSerp == "serpapi.GoogleSearch"
ApiModel == "bedrock.invoke_model"

(***************************************************************************)
(* Credential store.                                                       *)
(***************************************************************************)
(* hashlib.sha256(...).hexdigest(): a digest that is not the password and   *)
(* that no two passwords of the model share.                               *)
hash_password(password) == <<"sha256", password>>

UserRows(username) == {r \in users : r.username = username}

(* INSERT OR REPLACE in place of INSERT.                                    *)
signup_user_replace(username, password) ==
    [ok |-> PyBool(UserRows(username) = {}),
     users |-> (users \ UserRows(username)) \cup
               {[username |-> username,
                 password_hash |-> hash_password(password)]}]

signup_user(username, password) ==
    IF UserRows(username) # {}
    THEN [ok |-> PyFalse, users |-> users]
    ELSE [ok |-> PyTrue,
          users |-> users \cup {[username |-> username,
                                 password_hash |-> hash_password(password)]}]

login_user(username, password) ==
    IF UserRows(username) = {}
    THEN PyNone
    ELSE PyBool((CHOOSE r \in UserRows(username) : TRUE).password_hash
                    = hash_password(password))

(***************************************************************************)
(* Watchlist store.  PRIMARY KEY (username, title): an INSERT of a pair    *)
(* that has a row raises sqlite3.IntegrityError and changes nothing.       *)
(***************************************************************************)
WatchRows(username) == {r \in BagToSet(watchlist) : r.username = username}

PairRows(username, title) ==
    {r \in BagToSet(watchlist) : r.username = username /\ r.title = title}

RowCount(username, title) ==
    BagCardinality([r \in PairRows(username, title) |-> watchlist[r]])

is_in_watchlist(username, title) == PairRows(username, title) # {}

(* The table without its PRIMARY KEY.                                      *)
insert_watchlist_unchecked(row) ==
    [integrity_error |-> FALSE, watchlist |-> watchlist (+) SetToBag({row})]

(* INSERT OR REPLACE in place of INSERT.                                   *)
insert_watchlist_replace(row) ==
    [integrity_error |-> PairRows(row.username, row.title) # {},
     watchlist |-> [r \in (BagToSet(watchlist)
                             \ PairRows(row.username, row.title)) \cup {row}
                        |-> 1]]

insert_watchlist(row) ==
    IF PairRows(row.username, row.title) # {}
    THEN [integrity_error |-> TRUE, watchlist |-> watchlist]
    ELSE [integrity_error |-> FALSE,
          watchlist |-> watchlist (+) SetToBag({row})]

(* DELETE ... WHERE title = ? alone.                                       *)
delete_title_any_user(username, title) ==
    [r \in {x \in BagToSet(watchlist) : x.title # title} |-> watchlist[r]]

(* The DELETE never committed.                                             *)
delete_title_uncommitted(username, title) == watchlist

delete_title(username, title) ==
    [r \in BagToSet(watchlist) \ PairRows(username, title) |-> watchlist[r]]

(* DELETE FROM watchlist without its WHERE.                                *)
delete_user_all(username) == EmptyBag

delete_user(username) ==
    [r \in BagToSet(watchlist) \ WatchRows(username) |-> watchlist[r]]

(***************************************************************************)
(* Enrichment pipeline.  A world w fixes what the external services answer *)
(* during one handler run; fail_at = k makes the k-th external call raise. *)
(* Each function yields [raised, calls, value]: whether an exception left  *)
(* it, the external calls it issued in order, and the value it returned.   *)
(***************************************************************************)
AllCalls == <<ApiSearch, ApiInfo, ApiSimilar, ApiSerp, ApiModel>>

SearchWorlds ==
    [fail_at : 0..Len(AllCalls), found : BOOLEAN, doc : DetailsDocs,
     reply : StreamingReplies]

ModelWorlds == [fail : BOOLEAN, reply : RecReplies]

(* ask_claude returns the reply's text, stripped.                          *)
ask_claude(reply) == Strip(reply)

get_streaming_info(title, reply) == SplitStrip(ask_claude(reply))

get_movie_info(title, w) ==
    IF w.fail_at = 1
    THEN [raised |-> TRUE, calls |-> Take(AllCalls, 1), value |-> PyNone]
    ELSE IF ~w.found
    THEN [raised |-> FALSE, calls |-> Take(AllCalls, 1), value |-> PyNone]
    ELSE IF w.fail_at # 0
    THEN [raised |-> TRUE, calls |-> Take(AllCalls, w.fail_at),
          value |-> PyNone]
    ELSE [raised |-> FALSE, calls |-> AllCalls,
          value |->
            [title |-> Get(w.doc, "title", title),
             summary |-> Get(w.doc, "overview",
                             <<"No summary available.">>),
             rating |-> Get(w.doc, "vote_average", [str |-> <<"N/A">>]),
             poster_url |->
                 IF "poster_path" \in DOMAIN w.doc
                 THEN <<"https://image.tmdb.org/t/p/w500">>
                          \o w.doc.poster_path
                 ELSE PyNone,
             genres |-> LET gs == Get(w.doc, "genres", <<>>)
                        IN [i \in 1..Len(gs) |-> gs[i].name],
             similar_titles |-> Take(SimilarResults, MaxSimilar),
             available_on |-> get_streaming_info(title, w.reply)]]

ask_claude_for_genre_recs(genre_prompt, w) ==
    IF w.fail
    THEN [raised |-> TRUE, calls |-> <<ApiModel>>, value |-> <<>>]
    ELSE [raised |-> FALSE, calls |-> <<ApiModel>>,
          value |-> SplitStrip(ask_claude(w.reply))]

(* Without the early return on an empty watchlist.                         *)
personal_recs_always_ask(username, w) ==
    IF w.fail
    THEN [raised |-> TRUE, calls |-> <<ApiModel>>, value |-> <<>>]
    ELSE [raised |-> FALSE, calls |-> <<ApiModel>>,
          value |-> SplitStrip(ask_claude(w.reply))]

get_claude_personal_recommendations(username, w) ==
    IF WatchRows(username) = {}
    THEN [raised |-> FALSE, calls |-> <<>>, value |-> <<>>]
    ELSE IF w.fail
    THEN [raised |-> TRUE, calls |-> <<ApiModel>>, value |-> <<>>]
    ELSE [raised |-> FALSE, calls |-> <<ApiModel>>,
          value |-> SplitStrip(ask_claude(w.reply))]

(***************************************************************************)
(* Session state and the handlers of the script.  A handler is one script  *)
(* run of its session; Add and Remove are split where their single SQL     *)
(* statement runs, which is where runs of two sessions interleave.         *)
(***************************************************************************)
Absent == <<>>
Present(v) == <<v>>

MsgNone == ""
MsgLoginOk == "Login successful!"
MsgLoginBad == "Invalid credentials."
MsgSignupOk == "Account created! Please log in."
MsgSignupDup == "Username already exists."
MsgAdded == "Added to watchlist!"
MsgAlready == "Already in your watchlist."
MsgException == "<uncaught exception>"

Ran(s, op, r) ==
    [session |-> s, op |-> op, raised |-> r.raised, calls |-> r.calls,
     value |-> r.value]

Plain(v) == [raised |-> FALSE, calls |-> <<>>, value |-> v]

SessionInit ==
    /\ authenticated = [s \in Sessions |-> FALSE]
    /\ current_user = [s \in Sessions |-> ""]
    /\ movie_info = [s \in Sessions |-> Absent]
    /\ claude_recs = [s \in Sessions |-> Absent]
    /\ personal_recs = [s \in Sessions |-> Absent]
    /\ pc = [s \in Sessions |-> "idle"]
    /\ rm_title = [s \in Sessions |-> ""]
    /\ msg = [s \in Sessions |-> MsgNone]
    /\ last = Ran(0, "start", Plain(PyNone))

Init ==
    /\ users = {}
    /\ watchlist = EmptyBag
    /\ SessionInit

LoginPage(s) == ~authenticated[s] /\ pc[s] = "idle"
MainPage(s) == authenticated[s] /\ pc[s] = "idle"

Login(s, username, password) ==
    /\ LoginPage(s)
    /\ LET ok == login_user(username, password)
       IN /\ IF Truthy(ok)
             THEN /\ authenticated' = [authenticated EXCEPT ![s] = TRUE]
                  /\ current_user' = [current_user EXCEPT ![s] = username]
                  /\ msg' = [msg EXCEPT ![s] = MsgLoginOk]
             ELSE /\ msg' = [msg EXCEPT ![s] = MsgLoginBad]
                  /\ UNCHANGED <<authenticated, current_user>>
          /\ last' = Ran(s, "login_user",
                         Plain([username |-> username, password |-> password,
                                returned |-> ok]))
    /\ UNCHANGED <<users, watchlist, view_vars, pc, rm_title>>

SignUp(s, username, password) ==
    /\ LoginPage(s)
    /\ LET r == signup_user(username, password)
       IN /\ users' = r.users
          /\ msg' = [msg EXCEPT ![s] = IF Truthy(r.ok) THEN MsgSignupOk
                                       ELSE MsgSignupDup]
          /\ last' = Ran(s, "signup_user",
                         Plain([username |-> username, password |-> password,
                                returned |-> r.ok]))
    /\ UNCHANGED <<watchlist, session_vars, pc, rm_title>>

(* The other two views popped before get_movie_info is called.            *)
Search_pop_first(s, title_input, w) ==
    /\ MainPage(s)
    /\ title_input # ""
    /\ LET r == get_movie_info(title_input, w)
       IN /\ last' = Ran(s, "Search", r)
          /\ claude_recs' = [claude_recs EXCEPT ![s] = Absent]
          /\ personal_recs' = [personal_recs EXCEPT ![s] = Absent]
          /\ IF r.raised
             THEN /\ msg' = [msg EXCEPT ![s] = MsgException]
                  /\ UNCHANGED movie_info
             ELSE /\ movie_info' = [movie_info EXCEPT ![s] = Present(r.value)]
                  /\ msg' = [msg EXCEPT ![s] = MsgNone]
    /\ UNCHANGED <<users, watchlist, authenticated, current_user, pc, rm_title>>

Search(s, title_input, w) ==
    /\ MainPage(s)
    /\ title_input # ""
    /\ LET r == get_movie_info(title_input, w)
       IN /\ last' = Ran(s, "Search", r)
          /\ IF r.raised
             THEN /\ msg' = [msg EXCEPT ![s] = MsgException]
                  /\ UNCHANGED view_vars
             ELSE /\ movie_info' = [movie_info EXCEPT ![s] = Present(r.value)]
                  /\ claude_recs' = [claude_recs EXCEPT ![s] = Absent]
                  /\ personal_recs' = [personal_recs EXCEPT ![s] = Absent]
                  /\ msg' = [msg EXCEPT ![s] = MsgNone]
    /\ UNCHANGED <<users, watchlist, authenticated, current_user, pc, rm_title>>

GetRecs(s, genre_input, w) ==
    /\ MainPage(s)
    /\ genre_input # ""
    /\ LET r == ask_claude_for_genre_recs(genre_input, w)
       IN /\ last' = Ran(s, "GetRecs", r)
          /\ IF r.raised
             THEN /\ msg' = [msg EXCEPT ![s] = MsgException]
                  /\ UNCHANGED view_vars
             ELSE /\ claude_recs' = [claude_recs EXCEPT ![s] = Present(r.value)]
                  /\ movie_info' = [movie_info EXCEPT ![s] = Absent]
                  /\ personal_recs' = [personal_recs EXCEPT ![s] = Absent]
                  /\ msg' = [msg EXCEPT ![s] = MsgNone]
    /\ UNCHANGED <<users, watchlist, authenticated, current_user, pc, rm_title>>

(* Without the pop of movie_info.                                          *)
GetPersonalizedRecs_keeps_info(s, w) ==
    /\ MainPage(s)
    /\ LET r == get_claude_personal_recommendations(current_user[s], w)
       IN /\ last' = Ran(s, "GetPersonalizedRecs", r)
          /\ IF r.raised
             THEN /\ msg' = [msg EXCEPT ![s] = MsgException]
                  /\ UNCHANGED <<personal_recs, claude_recs>>
             ELSE /\ personal_recs' =
                         [personal_recs EXCEPT ![s] = Present(r.value)]
                  /\ claude_recs' = [claude_recs EXCEPT ![s] = Absent]
                  /\ msg' = [msg EXCEPT ![s] = MsgNone]
    /\ UNCHANGED <<users, watchlist, authenticated, current_user, movie_info,
                   pc, rm_title>>

GetPersonalizedRecs(s, w) ==
    /\ MainPage(s)
    /\ LET r == get_claude_personal_recommendations(current_user[s], w)
       IN /\ last' = Ran(s, "GetPersonalizedRecs", r)
          /\ IF r.raised
             THEN /\ msg' = [msg EXCEPT ![s] = MsgException]
                  /\ UNCHANGED view_vars
             ELSE /\ personal_recs' =
                         [personal_recs EXCEPT ![s] = Present(r.value)]
                  /\ movie_info' = [movie_info EXCEPT ![s] = Absent]
                  /\ claude_recs' = [claude_recs EXCEPT ![s] = Absent]
                  /\ msg' = [msg EXCEPT ![s] = MsgNone]
    /\ UNCHANGED <<users, watchlist, authenticated, current_user, pc, rm_title>>

InfoShown(s) == movie_info[s] # Absent /\ Truthy(movie_info[s][1])

WatchlistRow(s) ==
    LET info == movie_info[s][1]
    IN [username |-> current_user[s],
        title |-> info.title,
        rating |-> PyStr(info.rating),
        summary |-> info.summary,
        available_on |-> Join(<<",", " ">>, info.available_on)]

AddClick(s) ==
    /\ MainPage(s)
    /\ InfoShown(s)
    /\ pc' = [pc EXCEPT ![s] = "add"]
    /\ msg' = [msg EXCEPT ![s] = MsgNone]
    /\ last' = Ran(s, "AddClick", Plain(PyNone))
    /\ UNCHANGED <<users, watchlist, session_vars, rm_title>>

AddInsert(s) ==
    /\ pc[s] = "add"
    /\ LET r == insert_watchlist(WatchlistRow(s))
       IN /\ watchlist' = r.watchlist
          /\ msg' = [msg EXCEPT ![s] = IF r.integrity_error THEN MsgAlready
                                       ELSE MsgAdded]
    /\ pc' = [pc EXCEPT ![s] = "idle"]
    /\ last' = Ran(s, "AddInsert", Plain(WatchlistRow(s)))
    /\ UNCHANGED <<users, session_vars, rm_title>>

RemoveClick(s, title) ==
    /\ MainPage(s)
    /\ is_in_watchlist(current_user[s], title)
    /\ pc' = [pc EXCEPT ![s] = "remove"]
    /\ rm_title' = [rm_title EXCEPT ![s] = title]
    /\ msg' = [msg EXCEPT ![s] = MsgNone]
    /\ last' = Ran(s, "RemoveClick", Plain(PyNone))
    /\ UNCHANGED <<users, watchlist, session_vars>>

RemoveDelete(s) ==
    /\ pc[s] = "remove"
    /\ watchlist' = delete_title(current_user[s], rm_title[s])
    /\ pc' = [pc EXCEPT ![s] = "idle"]
    /\ rm_title' = [rm_title EXCEPT ![s] = ""]
    /\ last' = Ran(s, "RemoveDelete",
                   Plain([username |-> current_user[s], title |-> rm_title[s],
                          rowcount |-> RowCount(current_user[s], rm_title[s])]))
    /\ UNCHANGED <<users, session_vars, msg>>

ClearWatchlist(s) ==
    /\ MainPage(s)
    /\ watchlist' = delete_user(current_user[s])
    /\ msg' = [msg EXCEPT ![s] = MsgNone]
    /\ last' = Ran(s, "ClearWatchlist",
                   Plain([username |-> current_user[s],
                          rowcount |-> Cardinality(WatchRows(current_user[s]))]))
    /\ UNCHANGED <<users, session_vars, pc, rm_title>>

(* Without the pops of the three views.                                    *)
Logout_keeps_views(s) ==
    /\ MainPage(s)
    /\ authenticated' = [authenticated EXCEPT ![s] = FALSE]
    /\ current_user' = [current_user EXCEPT ![s] = ""]
    /\ msg' = [msg EXCEPT ![s] = MsgNone]
    /\ last' = Ran(s, "Logout", Plain(PyNone))
    /\ UNCHANGED <<users, watchlist, view_vars, pc, rm_title>>

Logout(s) ==
    /\ MainPage(s)
    /\ authenticated' = [authenticated EXCEPT ![s] = FALSE]
    /\ current_user' = [current_user EXCEPT ![s] = ""]
    /\ movie_info' = [movie_info EXCEPT ![s] = Absent]
    /\ claude_recs' = [claude_recs EXCEPT ![s] = Absent]
    /\ personal_recs' = [personal_recs EXCEPT ![s] = Absent]
    /\ msg' = [msg EXCEPT ![s] = MsgNone]
    /\ last' = Ran(s, "Logout", Plain(PyNone))
    /\ UNCHANGED <<users, watchlist, pc, rm_title>>

(***************************************************************************)
(* Specifications.                                                         *)
(***************************************************************************)
(* Spec: one session and every handler; the external services may fail    *)
(* at any call.                                                            *)
SpecWorlds ==
    {w \in SearchWorlds : w.doc \in {FullDoc("Dune"), BareDoc}}

Next ==
    \E s \in {1} :
        \/ \E u \in Usernames, p \in Passwords : Login(s, u, p)
        \/ \E u \in Usernames, p \in Passwords : SignUp(s, u, p)
        \/ \E w \in SpecWorlds : Search(s, "Dune", w)
        \/ \E w \in ModelWorlds : GetRecs(s, "noir", w)
        \/ \E w \in ModelWorlds : GetPersonalizedRecs(s, w)
        \/ AddClick(s)
        \/ AddInsert(s)
        \/ \E t \in Titles : RemoveClick(s, t)
        \/ RemoveDelete(s)
        \/ ClearWatchlist(s)
        \/ Logout(s)

Spec == Init /\ [][Next]_vars

(* SpecCred: two sessions on the login page and the credential store.      *)
NextCred ==
    \E s \in Sessions :
        \/ \E u \in Usernames, p \in Passwords : Login(s, u, p)
        \/ \E u \in Usernames, p \in Passwords : SignUp(s, u, p)
        \/ Logout(s)

SpecCred == Init /\ [][NextCred]_vars

(* SpecStore: two sessions on the watchlist store.  watchlist.db outlives  *)
(* the process (CREATE TABLE IF NOT EXISTS), so the run starts with the    *)
(* accounts an earlier run created.                                        *)
InitStore ==
    /\ users = {[username |-> u, password_hash |-> hash_password(1)] :
                    u \in Usernames}
    /\ watchlist = EmptyBag
    /\ SessionInit

StoreWorlds ==
    {w \in SearchWorlds :
        /\ w.fail_at = 0
        /\ w.found
        /\ w.doc # BareDoc
        /\ Len(w.reply) = 3}

NextStore ==
    \E s \in Sessions :
        \/ \E u \in Usernames : Login(s, u, 1)
        \/ \E w \in StoreWorlds : Search(s, w.doc.title, w)
        \/ AddClick(s)
        \/ AddInsert(s)
        \/ \E t \in Titles : RemoveClick(s, t)
        \/ RemoveDelete(s)
        \/ ClearWatchlist(s)
        \/ Logout(s)

SpecStore == InitStore /\ [][NextStore]_vars

(***************************************************************************)
(* Properties.  A step is named by last', which every handler sets: its    *)
(* session, its op, whether an exception left it, the external calls it    *)
(* issued and the value it returned.                                       *)
(***************************************************************************)
Registered(username, password) ==
    [username |-> username, password_hash |-> hash_password(password)]
        \in users

RegisteredIn(table, username, password) ==
    [username |-> username, password_hash |-> hash_password(password)]
        \in table

RowsIn(table, username, title) ==
    {r \in BagToSet(table) : r.username = username /\ r.title = title}

CountIn(table, username, title) ==
    BagCardinality([r \in RowsIn(table, username, title) |-> table[r]])

(* C1: register(u, p) of a username that is not registered returns true;   *)
(* from then on authenticate(u, p) returns true and authenticate(u, w)     *)
(* returns false for every other password w; authenticate of a username    *)
(* that was never registered returns false.                                *)
C1_RegisterThenAuthenticate ==
    [][ /\ (last'.op = "signup_user" /\ UserRows(last'.value.username) = {})
            => /\ last'.value.returned = PyTrue
               /\ RegisteredIn(users', last'.value.username, last'.value.password)
        /\ last'.op = "login_user"
            => last'.value.returned =
                   PyBool(Registered(last'.value.username,
                                     last'.value.password))
      ]_vars

(* C1, as far as the code goes: the same with "returns false" read as      *)
(* "returns a value that is not true" (False for a wrong password, None    *)
(* for a username with no row).                                            *)
C1_Truthiness ==
    [][ /\ (last'.op = "signup_user" /\ UserRows(last'.value.username) = {})
            => /\ last'.value.returned = PyTrue
               /\ RegisteredIn(users', last'.value.username, last'.value.password)
        /\ last'.op = "login_user"
            => /\ Truthy(last'.value.returned)
                    = Registered(last'.value.username, last'.value.password)
               /\ last'.value.returned =
                      IF UserRows(last'.value.username) = {} THEN PyNone
                      ELSE PyBool(Registered(last'.value.username,
                                             last'.value.password))
      ]_vars

(* C2: register of a username that is registered returns false, raises     *)
(* nothing and leaves the users table as it was; no row of users is ever   *)
(* changed or deleted, so the passwords that authenticate a registered     *)
(* username never change: only the one of its first register does.         *)
C2_RegisterExisting ==
    [][ /\ users \subseteq users'
        /\ \A u \in Usernames :
              UserRows(u) # {} => UserRows(u)' = UserRows(u)
        /\ (last'.op = "signup_user" /\ UserRows(last'.value.username) # {})
            => /\ last'.value.returned = PyFalse
               /\ ~last'.raised
               /\ users' = users
        /\ (last'.op = "signup_user" /\ UserRows(last'.value.username) = {})
            => \A p \in Passwords :
                  RegisteredIn(users', last'.value.username, p)
                      = (p = last'.value.password)
        /\ \A u \in Usernames, p \in Passwords :
              UserRows(u) # {}
                  => Truthy(login_user(u, p))' = Truthy(login_user(u, p))
      ]_vars

C2_Witness ==
    /\ last.op = "signup_user"
    /\ last.value.returned = PyFalse
    /\ \E p \in Passwords :
          /\ p # last.value.password
          /\ Truthy(login_user(last.value.username, p))
          /\ ~Truthy(login_user(last.value.username, last.value.password))

(* C3: an add of a (username, title) pair that has a row shows the         *)
(* "Already in your watchlist." warning, raises nothing and leaves the     *)
(* table as it was: one row for the pair, the one the first add inserted   *)
(* with the rating, summary and available_on it carried.                   *)
C3_DuplicateAdd ==
    [][ last'.op = "AddInsert"
          => LET row == last'.value
                 s == last'.session
             IN /\ ~last'.raised
                /\ CountIn(watchlist', row.username, row.title) = 1
                /\ IF is_in_watchlist(row.username, row.title)
                   THEN /\ msg'[s] = MsgAlready
                        /\ watchlist' = watchlist
                   ELSE /\ msg'[s] = MsgAdded
                        /\ RowsIn(watchlist', row.username, row.title) = {row}
      ]_vars

C3_Witness ==
    /\ last.op = "AddInsert"
    /\ msg[last.session] = MsgAlready
    /\ RowCount(last.value.username, last.value.title) = 1
    /\ \E r \in PairRows(last.value.username, last.value.title) :
          /\ r.rating # last.value.rating
          /\ r.summary # last.value.summary
          /\ r.available_on # last.value.available_on

(* C4: after add, exists(username, title) is true; after remove, it is     *)
(* false; remove of a pair with no row raises nothing and leaves the table *)
(* as it was.                                                              *)
C4_AddRemoveExists ==
    [][ /\ last'.op = "AddInsert"
            => RowsIn(watchlist', last'.value.username,
                      last'.value.title) # {}
        /\ last'.op = "RemoveDelete"
            => /\ ~last'.raised
               /\ RowsIn(watchlist', last'.value.username,
                         last'.value.title) = {}
               /\ ~is_in_watchlist(last'.value.username, last'.value.title)
                      => watchlist' = watchlist
      ]_vars

C4_Witness ==
    /\ last.op = "RemoveDelete"
    /\ last.value.rowcount = 0
    /\ watchlist # EmptyBag

Kept(r) == r \in BagToSet(watchlist') /\ watchlist'[r] = watchlist[r]

(* C5: clear(u) deletes every row of u and no row of another username;     *)
(* remove(u, title) changes no row but the one of (u, title).              *)
C5_ClearIsolation ==
    [][ /\ last'.op = "ClearWatchlist"
            => /\ \A r \in BagToSet(watchlist') :
                     r.username # last'.value.username
               /\ BagToSet(watchlist') \subseteq BagToSet(watchlist)
               /\ \A r \in BagToSet(watchlist) :
                     r.username # last'.value.username => Kept(r)
        /\ last'.op = "RemoveDelete"
            => /\ BagToSet(watchlist') \subseteq BagToSet(watchlist)
               /\ \A r \in BagToSet(watchlist) :
                     ~(r.username = last'.value.username
                         /\ r.title = last'.value.title) => Kept(r)
      ]_vars

C5_Witness ==
    /\ last.op = "ClearWatchlist"
    /\ last.value.rowcount = 2
    /\ \E r \in BagToSet(watchlist) : r.username # last.value.username

ViewsPresent(s) ==
    (IF movie_info[s] # Absent THEN 1 ELSE 0)
      + (IF claude_recs[s] # Absent THEN 1 ELSE 0)
      + (IF personal_recs[s] # Absent THEN 1 ELSE 0)

(* C6: a session never holds more than one of movie_info, claude_recs and  *)
(* personal_recs.                                                          *)
C6_AtMostOneView == \A s \in Sessions : ViewsPresent(s) <= 1

C6_Witness ==
    /\ last.op = "GetPersonalizedRecs"
    /\ ~last.raised
    /\ personal_recs[1] = Present(last.value)
    /\ last.value # <<>>
    /\ movie_info[1] = Absent
    /\ claude_recs[1] = Absent

(* C7: get_claude_personal_recommendations(u) returns the empty list and   *)
(* calls no language model when u has no watchlist row, and calls the      *)
(* language model exactly once when u has one.  (The handler changes       *)
(* neither the watchlist nor current_user, so the state after it shows     *)
(* the rows it read.)                                                      *)
C7_PersonalRecsCalls ==
    last.op = "GetPersonalizedRecs"
        => IF WatchRows(current_user[last.session]) = {}
           THEN /\ last.calls = <<>>
                /\ last.value = <<>>
                /\ ~last.raised
                /\ personal_recs[last.session] = Present(<<>>)
           ELSE last.calls = <<ApiModel>>

C7_Witness ==
    /\ last.op = "GetPersonalizedRecs"
    /\ WatchRows(current_user[last.session]) = {}
    /\ watchlist # EmptyBag
    /\ personal_recs[last.session] = Present(<<>>)

(* C8: a handler that an external call's exception leaves has issued each  *)
(* external call at most once, none after the one that raised, and has     *)
(* changed neither the three views nor the two tables.                     *)
C8_FailureAborts ==
    [][ last'.raised
          => /\ UNCHANGED <<users, watchlist, movie_info, claude_recs,
                            personal_recs, authenticated, current_user>>
             /\ last'.op \in {"Search", "GetRecs", "GetPersonalizedRecs"}
             /\ last'.calls # <<>>
             /\ last'.calls =
                    IF last'.op = "Search"
                    THEN Take(AllCalls, Len(last'.calls))
                    ELSE <<ApiModel>>
      ]_vars

C8_Witness ==
    /\ last.raised
    /\ last.op = "Search"
    /\ last.calls = <<ApiSearch, ApiInfo, ApiSimilar, ApiSerp>>
    /\ claude_recs[last.session] # Absent

SameKey(s, o) ==
    /\ InfoShown(s)
    /\ InfoShown(o)
    /\ WatchlistRow(s).username = WatchlistRow(o).username
    /\ WatchlistRow(s).title = WatchlistRow(o).title

(* C9: when the runs of two sessions are both at the INSERT of the same    *)
(* (username, title) pair and the pair has no row, the INSERT that runs    *)
(* first shows "Added to watchlist!" and the one that runs right after it  *)
(* shows "Already in your watchlist."; after each the table holds one row  *)
(* for the pair.  Nothing but insert_watchlist decides the outcome.        *)
C9_ConcurrentAdd ==
    [][ \A s, o \in Sessions :
          (s # o /\ last'.op = "AddInsert" /\ last'.session = s
             /\ pc[s] = "add" /\ SameKey(s, o))
            => /\ (pc[o] = "add" /\ ~is_in_watchlist(WatchlistRow(s).username,
                                                     WatchlistRow(s).title))
                    => /\ msg'[s] = MsgAdded
                       /\ pc'[o] = "add"
               /\ (last.op = "AddInsert" /\ last.session = o
                      /\ msg[o] = MsgAdded)
                    => msg'[s] = MsgAlready
               /\ CountIn(watchlist', WatchlistRow(s).username,
                          WatchlistRow(s).title) = 1
      ]_vars

C9_Witness ==
    /\ last.op = "AddInsert"
    /\ last.session = 1
    /\ msg[1] = MsgAdded
    /\ pc[2] = "add"
    /\ SameKey(1, 2)
    /\ RowCount(WatchlistRow(2).username, WatchlistRow(2).title) = 1

LoggedOut(s) ==
    /\ current_user[s] = ""
    /\ movie_info[s] = Absent
    /\ claude_recs[s] = Absent
    /\ personal_recs[s] = Absent

(* C10: a session that is not authenticated has the empty current_user and *)
(* none of the three views; Logout leaves the session not authenticated;   *)
(* a signup changes no session field, and neither does a login that fails. *)
C10_Unauthenticated ==
    /\ [](\A s \in Sessions : ~authenticated[s] => LoggedOut(s))
    /\ [][ /\ last'.op = "Logout"
               => ~authenticated'[last'.session]
           /\ last'.op = "signup_user"
               => UNCHANGED session_vars
           /\ (last'.op = "login_user" /\ ~Truthy(last'.value.returned))
               => UNCHANGED session_vars
         ]_vars

C10_Witness ==
    /\ last.op = "login_user"
    /\ authenticated[1]
    /\ current_user[1] = "bob"
    /\ WatchRows("alice") # {}
    /\ WatchRows("bob") = {}
    /\ ViewsPresent(1) = 0

====
